---- MODULE Spec2Model ----
(***************************************************************************)
(* DotNetClient (packages/dotnet/src/lib/core/dotnet.client.ts).           *)
(*                                                                         *)
(* A string is a sequence of one-character strings, so that the regular    *)
(* expressions of the client (environment substitution, extra-parameter    *)
(* tokenizing) are computed character by character.  An argument list is a *)
(* sequence of strings.  An optional string that the code only tests for   *)
(* truthiness is the empty sequence when it is undefined or "".            *)
(*                                                                         *)
(* One behaviour is one call of a client method: the client keeps nothing  *)
(* between calls but cliCommand and cwd.                                   *)
(***************************************************************************)
EXTENDS Integers, Sequences, FiniteSets, TLC

VARIABLES
    sdkVersion,  \* cliCommand.info.version, as [major, minor, patch]
    env,         \* process.env, a set of [name, value]
    pc,          \* position of the call: idle, whitespace, style, analyzers, done
    op,          \* the method called and its arguments
    frame,       \* the locals of format while it runs on the subcommand path
    events,      \* console.log lines and child processes, in the order made
    result       \* how the call ended: none, returned, raised, handle, typeError

vars == <<sdkVersion, env, pc, op, frame, events, result>>

-----------------------------------------------------------------------------
(* Bounds of the model. *)

MaxMajor == 7
MaxMinor == 1
MaxStatus == 1

-----------------------------------------------------------------------------
(* String literals of the source. *)

s_new == <<"n", "e", "w">>
s_list == <<"l", "i", "s", "t">>
s_dashdashlist == <<"-", "-", "l", "i", "s", "t">>
s_dashdashlanguage == <<"-", "-", "l", "a", "n", "g", "u", "a", "g", "e">>
s_build == <<"b", "u", "i", "l", "d">>
s_watch == <<"w", "a", "t", "c", "h">>
s_dashdashproject == <<"-", "-", "p", "r", "o", "j", "e", "c", "t">>
s_run == <<"r", "u", "n">>
s_test == <<"t", "e", "s", "t">>
s_publish == <<"p", "u", "b", "l", "i", "s", "h">>
s_tool == <<"t", "o", "o", "l">>
s_dotnetformat == <<"d", "o", "t", "n", "e", "t", "-", "f", "o", "r", "m", "a", "t">>
s_dashdash == <<"-", "-">>
s_format == <<"f", "o", "r", "m", "a", "t">>
s_whitespace == <<"w", "h", "i", "t", "e", "s", "p", "a", "c", "e">>
s_style == <<"s", "t", "y", "l", "e">>
s_analyzers == <<"a", "n", "a", "l", "y", "z", "e", "r", "s">>
s_severity == <<"s", "e", "v", "e", "r", "i", "t", "y">>
s_fixWhitespace == <<"f", "i", "x", "W", "h", "i", "t", "e", "s", "p", "a", "c", "e">>
s_fixStyle == <<"f", "i", "x", "S", "t", "y", "l", "e">>
s_fixAnalyzers == <<"f", "i", "x", "A", "n", "a", "l", "y", "z", "e", "r", "s">>
s_publishProfileEq == <<"-", "p", ":", "P", "u", "b", "l", "i", "s", "h", "P", "r", "o", "f", "i", "l", "e", "=">>
s_quote == <<"\"">>

(* Flag spellings of the key maps of ../models. *)
s_fixwhitespace == <<"f", "i", "x", "-", "w", "h", "i", "t", "e", "s", "p", "a", "c", "e">>
s_fixstyle == <<"f", "i", "x", "-", "s", "t", "y", "l", "e">>
s_fixanalyzers == <<"f", "i", "x", "-", "a", "n", "a", "l", "y", "z", "e", "r", "s">>
s_noRestore == <<"n", "o", "R", "e", "s", "t", "o", "r", "e">>
s_norestore == <<"n", "o", "-", "r", "e", "s", "t", "o", "r", "e">>

(* Strings the callers pass in. *)
s_check == <<"c", "h", "e", "c", "k">>
s_configuration == <<"c", "o", "n", "f", "i", "g", "u", "r", "a", "t", "i", "o", "n">>
s_HOME == <<"H", "O", "M", "E">>
s_web == <<"w", "e", "b">>
s_app == <<"a", "p", "p">>
s_homeapp == <<"$", "H", "O", "M", "E", "/", "a", "p", "p">>
s_homehome == <<"$", "H", "O", "M", "E", "/", "$", "H", "O", "M", "E">>
s_warn == <<"w", "a", "r", "n">>
s_info == <<"i", "n", "f", "o">>
s_Release == <<"R", "e", "l", "e", "a", "s", "e">>
s_slashh == <<"/", "h">>
s_csharp == <<"C", "#">>
s_prod == <<"p", "r", "o", "d">>
s_swagger == <<"s", "w", "a", "g", "g", "e", "r">>
s_v == <<"-", "v">>
s_ab == <<"-", "a", " ", " ", "-", "b">>
s_quoted == <<"-", "f", "=", "\"", "a", " ", "b", "\"", " ", "-", "c">>
s_openquote == <<"a", "\"", " ", "b">>
s_blank == <<" ">>

-----------------------------------------------------------------------------
(* Character classes of the regular expressions. *)

\* \w
WordChars ==
    { "a", "b", "c", "d", "e", "f", "g", "h", "i", "j", "k", "l", "m",
      "n", "o", "p", "q", "r", "s", "t", "u", "v", "w", "x", "y", "z",
      "A", "B", "C", "D", "E", "F", "G", "H", "I", "J", "K", "L", "M",
      "N", "O", "P", "Q", "R", "S", "T", "U", "V", "W", "X", "Y", "Z",
      "0", "1", "2", "3", "4", "5", "6", "7", "8", "9", "_" }

\* \s, for the characters that occur
SpaceChars == { " " }

-----------------------------------------------------------------------------
(* param.replace(/\$(\w+)/, (_, varName) => process.env[varName] ?? '') *)

\* process.env[varName] ?? ''
envLookup(environ, varName) ==
    IF \E b \in environ : b.name = varName
    THEN (CHOOSE b \in environ : b.name = varName).value
    ELSE <<>>

\* whether /\$(\w+)/ matches at index i of s
dollarAt(s, i) == i < Len(s) /\ s[i] = "$" /\ s[i + 1] \in WordChars

\* the index of the leftmost match from index i on, 0 when there is none
RECURSIVE firstDollar(_, _)
firstDollar(s, i) ==
    IF i > Len(s) THEN 0
    ELSE IF dollarAt(s, i) THEN i
    ELSE firstDollar(s, i + 1)

\* \w+ is greedy: the index of the last word character of the run holding s[i]
RECURSIVE wordRunEnd(_, _)
wordRunEnd(s, i) ==
    IF i < Len(s) /\ s[i + 1] \in WordChars THEN wordRunEnd(s, i + 1) ELSE i

replaceEnvVar(param, environ) ==
    LET i == firstDollar(param, 1) IN
    IF i = 0 THEN param
    ELSE LET j == wordRunEnd(param, i + 1) IN
         SubSeq(param, 1, i - 1)
           \o envLookup(environ, SubSeq(param, i + 1, j))
           \o SubSeq(param, j + 1, Len(param))

\* params.map((param) => param.replace(...))
substituteAll(params, environ) ==
    [i \in 1..Len(params) |-> replaceEnvVar(params[i], environ)]

-----------------------------------------------------------------------------
(* semver on MAJOR.MINOR.PATCH versions *)

semverLt(a, b) ==
    \/ a.major < b.major
    \/ a.major = b.major /\ a.minor < b.minor
    \/ a.major = b.major /\ a.minor = b.minor /\ a.patch < b.patch

semverGte(a, b) == ~semverLt(a, b)

semverMajor(v) == v.major

\* '6.0.100' and '7.0.100'
v6_0_100 == [major |-> 6, minor |-> 0, patch |-> 100]
v7_0_100 == [major |-> 7, minor |-> 0, patch |-> 100]

-----------------------------------------------------------------------------
(* Option objects: the entries of a JavaScript object in insertion order,  *)
(* each a key with a boolean or a string value; an absent key reads as     *)
(* undefined.  A parameter that may itself be undefined is wrapped.        *)

Bool(b) == [t |-> "boolean", b |-> b, s |-> <<>>]
Str(s) == [t |-> "string", b |-> FALSE, s |-> s]
Undef == [t |-> "undefined", b |-> FALSE, s |-> <<>>]
False == Bool(FALSE)
True == Bool(TRUE)

Entry(k, v) == [k |-> k, v |-> v]
Obj(o) == [def |-> TRUE, o |-> o]
Undefined == [def |-> FALSE, o |-> <<>>]

hasKey(o, key) == \E i \in 1..Len(o) : o[i].k = key

\* parameters?.key
getKey(p, key) ==
    IF p.def /\ hasKey(p.o, key)
    THEN p.o[CHOOSE i \in 1..Len(p.o) : p.o[i].k = key].v
    ELSE Undef

\* delete o.key
deleteKey(o, key) == SelectSeq(o, LAMBDA e : e.k # key)

\* o.key = v
setKey(o, key, v) ==
    IF hasKey(o, key)
    THEN [i \in 1..Len(o) |-> IF o[i].k = key THEN Entry(key, v) ELSE o[i]]
    ELSE Append(o, Entry(key, v))

-----------------------------------------------------------------------------
(* @nx-dotnet/utils and ../models: the key maps and the two option helpers *)

formatKeyMap ==
    { [from |-> s_fixWhitespace, to |-> s_fixwhitespace],
      [from |-> s_fixStyle, to |-> s_fixstyle],
      [from |-> s_fixAnalyzers, to |-> s_fixanalyzers] }
buildKeyMap == { [from |-> s_noRestore, to |-> s_norestore] }
runKeyMap == { [from |-> s_noRestore, to |-> s_norestore] }
testKeyMap == { [from |-> s_noRestore, to |-> s_norestore] }
publishKeyMap == { [from |-> s_noRestore, to |-> s_norestore] }

\* every key of the map is renamed, the others pass through; order is kept
swapKeysUsingMap(o, keyMap) ==
    [i \in 1..Len(o) |->
        IF \E m \in keyMap : m.from = o[i].k
        THEN Entry((CHOOSE m \in keyMap : m.from = o[i].k).to, o[i].v)
        ELSE o[i]]

\* true: the flag alone; false and undefined: nothing; a string: flag, value
RECURSIVE getSpawnParameterArray(_)
getSpawnParameterArray(o) ==
    IF o = <<>> THEN <<>>
    ELSE LET e == Head(o)
             flag == s_dashdash \o e.k
             here == IF e.v.t = "boolean"
                     THEN (IF e.v.b THEN <<flag>> ELSE <<>>)
                     ELSE IF e.v.t = "string" THEN <<flag, e.v.s>>
                     ELSE <<>>
         IN here \o getSpawnParameterArray(Tail(o))

-----------------------------------------------------------------------------
(* EXTRA_PARAMS_REGEX = /\S*".+?"|\S+/g *)

\* the index of the last character of the maximal \S run that starts at i
\* (i - 1 when s[i] is a space)
RECURSIVE nonSpaceRunEnd(_, _)
nonSpaceRunEnd(s, i) ==
    IF i <= Len(s) /\ s[i] \notin SpaceChars
    THEN nonSpaceRunEnd(s, i + 1)
    ELSE i - 1

\* .+?" after a quote at k: the least m >= k + 2 with a quote, 0 when none
closingQuote(s, k) ==
    LET M == { m \in (k + 2)..Len(s) : s[m] = "\"" } IN
    IF M = {} THEN 0 ELSE CHOOSE m \in M : \A n \in M : m <= n

\* \S*".+?" at i: \S* is greedy and backtracks, so the quote it stops at is
\* the rightmost one of the run that has a closing quote; 0 when no match
quotedMatchEnd(s, i) ==
    LET r == nonSpaceRunEnd(s, i)
        K == { k \in i..r : s[k] = "\"" /\ closingQuote(s, k) # 0 }
    IN IF K = {} THEN 0
       ELSE closingQuote(s, CHOOSE k \in K : \A n \in K : n <= k)

\* all matches from index i on, left to right
RECURSIVE matchesFrom(_, _)
matchesFrom(s, i) ==
    IF i > Len(s) THEN <<>>
    ELSE IF s[i] \in SpaceChars THEN matchesFrom(s, i + 1)
    ELSE LET q == quotedMatchEnd(s, i)
             e == IF q # 0 THEN q ELSE nonSpaceRunEnd(s, i)
         IN <<SubSeq(s, i, e)>> \o matchesFrom(s, e + 1)

\* extraParameters.match(EXTRA_PARAMS_REGEX); <<>> stands for null
matchExtraParams(extraParameters) == matchesFrom(extraParameters, 1)

\* params.push(...(matches as string[])) throws a TypeError on null
spreadThrows(extraParameters) ==
    extraParameters # <<>> /\ matchExtraParams(extraParameters) = <<>>

\* if (extraParameters) { params.push(...matches) }
extraTokens(extraParameters) ==
    IF extraParameters # <<>> THEN matchExtraParams(extraParameters) ELSE <<>>

\* if (parameters) { params.push(...getSpawnParameterArray(swapKeysUsingMap(..))) }
optionTokens(parameters, keyMap) ==
    IF parameters.def
    THEN getSpawnParameterArray(swapKeysUsingMap(parameters.o, keyMap))
    ELSE <<>>

-----------------------------------------------------------------------------
(* The three ways of running the command.  An event is a console.log line  *)
(* or a child process: params is the list the method was given, args the   *)
(* list shown on the line or handed to the process, status the exit status *)
(* of the process.                                                         *)

LogLine(params, args) ==
    [kind |-> "log", mode |-> "none", params |-> params, args |-> args, status |-> 0]
Process(mode, params, args, status) ==
    [kind |-> "process", mode |-> mode, params |-> params, args |-> args, status |-> status]

\* the status check left out
logAndExecute_unchecked(params, environ, status) ==
    LET args == substituteAll(params, environ) IN
    [events |-> << LogLine(params, args), Process("inherit", params, args, status) >>,
     outcome |-> "returned"]

logAndExecute(params, environ, status) ==
    LET args == substituteAll(params, environ) IN
    [events |-> << LogLine(params, args), Process("inherit", params, args, status) >>,
     outcome |-> IF status # 0 THEN "raised" ELSE "returned"]

spawnAndGetOutput(params, environ, status) ==
    LET args == substituteAll(params, environ) IN
    [events |-> << Process("pipe", params, args, status) >>,
     outcome |-> IF status # 0 THEN "raised" ELSE "returned"]

\* the line written after the process is started
logAndSpawn_logAfter(params, environ, status) ==
    [events |-> << Process("spawn", params, params, status), LogLine(params, params) >>,
     outcome |-> "handle"]

logAndSpawn(params, environ, status) ==
    [events |-> << LogLine(params, params), Process("spawn", params, params, status) >>,
     outcome |-> "handle"]

-----------------------------------------------------------------------------
(* The argument lists the methods assemble. *)

\* the .NET 7 spelling taken from 6.0.100 on
listInstalledTemplatesParams_list6(version, search, language) ==
    <<s_new>>
      \o (IF semverLt(version, v6_0_100) /\ search # <<>> THEN <<search>> ELSE <<>>)
      \o (IF semverGte(version, v6_0_100) THEN <<s_list>> ELSE <<s_dashdashlist>>)
      \o (IF semverGte(version, v6_0_100) /\ search # <<>> THEN <<search>> ELSE <<>>)
      \o (IF language # <<>> THEN <<s_dashdashlanguage, language>> ELSE <<>>)

listInstalledTemplatesParams(version, search, language) ==
    <<s_new>>
      \o (IF semverLt(version, v6_0_100) /\ search # <<>> THEN <<search>> ELSE <<>>)
      \o (IF semverGte(version, v7_0_100) THEN <<s_list>> ELSE <<s_dashdashlist>>)
      \o (IF semverGte(version, v6_0_100) /\ search # <<>> THEN <<search>> ELSE <<>>)
      \o (IF language # <<>> THEN <<s_dashdashlanguage, language>> ELSE <<>>)

buildParams(project, parameters, extraParameters) ==
    <<s_build, project>>
      \o optionTokens(parameters, buildKeyMap)
      \o extraTokens(extraParameters)

runParams(project, watch, parameters) ==
    (IF watch
     THEN <<s_watch, s_dashdashproject, project, s_run>>
     ELSE <<s_run, s_dashdashproject, project>>)
      \o optionTokens(parameters, runKeyMap)

\* the watch prefix in the order of the plain one
testParams_watchOrder(project, watch, parameters, extraParameters) ==
    (IF watch
     THEN <<s_watch, s_test, s_dashdashproject, project>>
     ELSE <<s_test, project>>)
      \o optionTokens(parameters, testKeyMap)
      \o extraTokens(extraParameters)

testParams(project, watch, parameters, extraParameters) ==
    (IF watch
     THEN <<s_watch, s_dashdashproject, project, s_test>>
     ELSE <<s_test, project>>)
      \o optionTokens(parameters, testKeyMap)
      \o extraTokens(extraParameters)

\* the profile pushed last
publishParams_profileLast(project, parameters, publishProfile, extraParameters) ==
    <<s_publish, s_quote \o project \o s_quote>>
      \o optionTokens(parameters, publishKeyMap)
      \o extraTokens(extraParameters)
      \o (IF publishProfile # <<>> THEN <<s_publishProfileEq \o publishProfile>> ELSE <<>>)

publishParams(project, parameters, publishProfile, extraParameters) ==
    <<s_publish, s_quote \o project \o s_quote>>
      \o optionTokens(parameters, publishKeyMap)
      \o (IF publishProfile # <<>> THEN <<s_publishProfileEq \o publishProfile>> ELSE <<>>)
      \o extraTokens(extraParameters)

\* getSpawnParameterArray(parameters), with no key map
runToolParams(tool, positionalParameters, parameters, extraParameters) ==
    <<s_tool, s_run, tool>>
      \o positionalParameters
      \o (IF parameters.def THEN getSpawnParameterArray(parameters.o) ELSE <<>>)
      \o extraTokens(extraParameters)

-----------------------------------------------------------------------------
(* format *)

formatPrefix(forceToolUsage) ==
    IF forceToolUsage
    THEN <<s_tool, s_run, s_dotnetformat, s_dashdash>>
    ELSE <<s_format>>

\* > 6 for >= 6
useSubcommands_after6(version, parameters) ==
    /\ semverMajor(version) > 6
    /\ \/ getKey(parameters, s_fixWhitespace) # Undef
       \/ getKey(parameters, s_fixStyle) # Undef
       \/ getKey(parameters, s_fixAnalyzers) # Undef

\* the condition of the if: .NET 6 or later and one of the three options given
useSubcommands(version, parameters) ==
    /\ semverMajor(version) >= 6
    /\ \/ getKey(parameters, s_fixWhitespace) # Undef
       \/ getKey(parameters, s_fixStyle) # Undef
       \/ getKey(parameters, s_fixAnalyzers) # Undef

\* the else branch
formatUnifiedParams(prefix, project, parameters) ==
    prefix \o <<project>> \o optionTokens(parameters, formatKeyMap)

\* the three deletes on the caller's object
withoutFixOptions(o) ==
    deleteKey(deleteKey(deleteKey(o, s_fixWhitespace), s_fixStyle), s_fixAnalyzers)

\* if (whitespace), if (style), if (analyzers)
notDisabled_truthy(flag) == flag # False /\ flag # Undef

\* whitespace !== false, style !== false, analyzers !== false
notDisabled(flag) == flag # False

whitespaceParams(prefix, project, o) ==
    prefix \o <<s_whitespace, project>>
      \o getSpawnParameterArray(deleteKey(o, s_fixWhitespace))

styleParams(prefix, project, o, style) ==
    prefix \o <<s_style, project>>
      \o getSpawnParameterArray(
           deleteKey(IF style.t = "string" THEN setKey(o, s_severity, style) ELSE o,
                     s_fixStyle))

\* the style block copied and the subcommand word not changed
analyzersParams_style(prefix, project, o, analyzers) ==
    prefix \o <<s_style, project>>
      \o getSpawnParameterArray(
           deleteKey(IF analyzers.t = "string" THEN setKey(o, s_severity, analyzers) ELSE o,
                     s_fixAnalyzers))

analyzersParams(prefix, project, o, analyzers) ==
    prefix \o <<s_analyzers, project>>
      \o getSpawnParameterArray(
           deleteKey(IF analyzers.t = "string" THEN setKey(o, s_severity, analyzers) ELSE o,
                     s_fixAnalyzers))

-----------------------------------------------------------------------------
(* What the callers pass in. *)

Versions == [major : 5..MaxMajor, minor : 0..MaxMinor, patch : {99, 100}]
Environments == { {}, { [name |-> s_HOME, value |-> s_slashh] } }
Statuses == 0..MaxStatus
Projects == { s_app, s_homeapp, s_homehome }
Searches == { <<>>, s_web, s_HOME }
Languages == { <<>>, s_csharp }
Profiles == { <<>>, s_prod }
ExtraParameters == { <<>>, s_v, s_ab, s_quoted, s_openquote, s_blank }
Tools == { s_swagger }
Positionals == { <<>>, <<s_homeapp>> }

\* the objects whose entries are the given ones, in every order, with
\* distinct keys
ObjectsOf(entries) ==
    { o \in UNION { [1..n -> entries] : n \in 0..Cardinality({ e.k : e \in entries }) } :
        \A i, j \in 1..Len(o) : i # j => o[i].k # o[j].k }

Parameters ==
    { Undefined } \cup
    { Obj(o) : o \in ObjectsOf({ Entry(s_noRestore, True), Entry(s_noRestore, False),
                                 Entry(s_configuration, Str(s_Release)) }) }

\* the format options: the three fix options and check, in declaration order,
\* each present or not
FixWhitespaceValues == { Undef, True, False }
FixStyleValues == { Undef, True, False, Str(s_warn) }
FixAnalyzersValues == { Undef, True, False, Str(s_info) }
CheckValues == { Undef, True }

present(k, v) == IF v = Undef THEN <<>> ELSE <<Entry(k, v)>>

FormatParameters ==
    { Undefined } \cup
    { Obj(present(s_fixWhitespace, w) \o present(s_fixStyle, s)
            \o present(s_fixAnalyzers, a) \o present(s_check, c)) :
        w \in FixWhitespaceValues, s \in FixStyleValues,
        a \in FixAnalyzersValues, c \in CheckValues }

-----------------------------------------------------------------------------
(* State *)

NoOp ==
    [name |-> "none", project |-> <<>>, watch |-> FALSE, parameters |-> Undefined,
     extraParameters |-> <<>>, publishProfile |-> <<>>, search |-> <<>>,
     language |-> <<>>, forceToolUsage |-> FALSE, tool |-> <<>>,
     positionalParameters |-> <<>>]

NoFrame ==
    [params |-> <<>>, parameters |-> <<>>, whitespace |-> Undef, style |-> Undef,
     analyzers |-> Undef]

Init ==
    /\ sdkVersion \in Versions
    /\ env \in Environments
    /\ pc = "idle"
    /\ op = NoOp
    /\ frame = NoFrame
    /\ events = <<>>
    /\ result = "none"

\* the method runs one command and ends as the command's runner ends
Complete(r) ==
    /\ events' = r.events
    /\ result' = r.outcome
    /\ pc' = "done"
    /\ UNCHANGED <<sdkVersion, env, frame>>

\* the spread of a null match throws before anything is run
ThrowTypeError ==
    /\ events' = <<>>
    /\ result' = "typeError"
    /\ pc' = "done"
    /\ UNCHANGED <<sdkVersion, env, frame>>

listInstalledTemplates(search, language, status) ==
    /\ pc = "idle"
    /\ op' = [NoOp EXCEPT !.name = "listInstalledTemplates", !.search = search,
                          !.language = language]
    /\ Complete(spawnAndGetOutput(
           listInstalledTemplatesParams(sdkVersion, search, language), env, status))

build(project, parameters, extraParameters, status) ==
    /\ pc = "idle"
    /\ op' = [NoOp EXCEPT !.name = "build", !.project = project,
                          !.parameters = parameters,
                          !.extraParameters = extraParameters]
    /\ IF spreadThrows(extraParameters)
       THEN ThrowTypeError
       ELSE Complete(logAndExecute(
                buildParams(project, parameters, extraParameters), env, status))

run(project, watch, parameters, status) ==
    /\ pc = "idle"
    /\ op' = [NoOp EXCEPT !.name = "run", !.project = project, !.watch = watch,
                          !.parameters = parameters]
    /\ Complete(logAndSpawn(runParams(project, watch, parameters), env, status))

test(project, watch, parameters, extraParameters, status) ==
    /\ pc = "idle"
    /\ op' = [NoOp EXCEPT !.name = "test", !.project = project, !.watch = watch,
                          !.parameters = parameters,
                          !.extraParameters = extraParameters]
    /\ IF spreadThrows(extraParameters)
       THEN ThrowTypeError
       ELSE LET params == testParams(project, watch, parameters, extraParameters) IN
            IF ~watch
            THEN Complete(logAndExecute(params, env, status))
            ELSE Complete(logAndSpawn(params, env, status))

publish(project, parameters, publishProfile, extraParameters, status) ==
    /\ pc = "idle"
    /\ op' = [NoOp EXCEPT !.name = "publish", !.project = project,
                          !.parameters = parameters,
                          !.publishProfile = publishProfile,
                          !.extraParameters = extraParameters]
    /\ IF spreadThrows(extraParameters)
       THEN ThrowTypeError
       ELSE Complete(logAndExecute(
                publishParams(project, parameters, publishProfile, extraParameters),
                env, status))

runTool(tool, positionalParameters, parameters, extraParameters, status) ==
    /\ pc = "idle"
    /\ op' = [NoOp EXCEPT !.name = "runTool", !.tool = tool,
                          !.positionalParameters = positionalParameters,
                          !.parameters = parameters,
                          !.extraParameters = extraParameters]
    /\ IF spreadThrows(extraParameters)
       THEN ThrowTypeError
       ELSE Complete(logAndExecute(
                runToolParams(tool, positionalParameters, parameters, extraParameters),
                env, status))

\* the entry of format: the branch is taken, and the unified call is made here
format(project, parameters, forceToolUsage, status) ==
    /\ pc = "idle"
    /\ op' = [NoOp EXCEPT !.name = "format", !.project = project,
                          !.parameters = parameters,
                          !.forceToolUsage = forceToolUsage]
    /\ IF useSubcommands(sdkVersion, parameters)
       THEN /\ frame' = [params |-> formatPrefix(forceToolUsage),
                         parameters |-> withoutFixOptions(parameters.o),
                         whitespace |-> getKey(parameters, s_fixWhitespace),
                         style |-> getKey(parameters, s_fixStyle),
                         analyzers |-> getKey(parameters, s_fixAnalyzers)]
            /\ pc' = "whitespace"
            /\ UNCHANGED <<sdkVersion, env, events, result>>
       ELSE Complete(logAndExecute(
                formatUnifiedParams(formatPrefix(forceToolUsage), project, parameters),
                env, status))

\* the error of a failing run caught and dropped
subcommandBlock_swallow(enabled, params, next, status) ==
    /\ IF enabled
       THEN LET r == logAndExecute(params, env, status) IN
            /\ events' = events \o r.events
            /\ pc' = next
            /\ result' = IF next = "done" THEN "returned" ELSE result
       ELSE /\ pc' = next
            /\ result' = IF next = "done" THEN "returned" ELSE result
            /\ UNCHANGED events
    /\ UNCHANGED <<sdkVersion, env, op, frame>>

\* one of the three if blocks: the subcommand is run when its option is not
\* false, and a failing run throws out of format
subcommandBlock(enabled, params, next, status) ==
    /\ IF enabled
       THEN LET r == logAndExecute(params, env, status) IN
            /\ events' = events \o r.events
            /\ IF r.outcome = "raised"
               THEN pc' = "done" /\ result' = "raised"
               ELSE /\ pc' = next
                    /\ result' = IF next = "done" THEN "returned" ELSE result
       ELSE /\ pc' = next
            /\ result' = IF next = "done" THEN "returned" ELSE result
            /\ UNCHANGED events
    /\ UNCHANGED <<sdkVersion, env, op, frame>>

formatWhitespace(status) ==
    /\ pc = "whitespace"
    /\ subcommandBlock(notDisabled(frame.whitespace),
                       whitespaceParams(frame.params, op.project, frame.parameters),
                       "style", status)

formatStyle(status) ==
    /\ pc = "style"
    /\ subcommandBlock(notDisabled(frame.style),
                       styleParams(frame.params, op.project, frame.parameters, frame.style),
                       "analyzers", status)

formatAnalyzers(status) ==
    /\ pc = "analyzers"
    /\ subcommandBlock(notDisabled(frame.analyzers),
                       analyzersParams(frame.params, op.project, frame.parameters,
                                       frame.analyzers),
                       "done", status)

Next ==
    \/ \E s \in Searches, l \in Languages, st \in Statuses :
           listInstalledTemplates(s, l, st)
    \/ \E p \in Projects, o \in Parameters, x \in ExtraParameters, st \in Statuses :
           build(p, o, x, st)
    \/ \E p \in Projects, w \in BOOLEAN, o \in Parameters, st \in Statuses :
           run(p, w, o, st)
    \/ \E p \in Projects, w \in BOOLEAN, o \in Parameters, x \in ExtraParameters,
          st \in Statuses :
           test(p, w, o, x, st)
    \/ \E p \in Projects, o \in Parameters, f \in Profiles, x \in ExtraParameters,
          st \in Statuses :
           publish(p, o, f, x, st)
    \/ \E t \in Tools, a \in Positionals, o \in Parameters, x \in ExtraParameters,
          st \in Statuses :
           runTool(t, a, o, x, st)
    \/ \E p \in Projects, o \in FormatParameters, f \in BOOLEAN, st \in Statuses :
           format(p, o, f, st)
    \/ \E st \in Statuses : formatWhitespace(st)
    \/ \E st \in Statuses : formatStyle(st)
    \/ \E st \in Statuses : formatAnalyzers(st)

Spec == Init /\ [][Next]_vars

-----------------------------------------------------------------------------
(* Reading the events of a call. *)

Processes == SelectSeq(events, LAMBDA e : e.kind = "process")

IsPrefixOf(a, b) == Len(a) <= Len(b) /\ SubSeq(b, 1, Len(a)) = a

\* the number of tokens format puts before the subcommand word or the project
FormatSkip == IF op.forceToolUsage THEN 4 ELSE 1

\* which call of format a process is, read from its argument list
FormatCall(e) ==
    LET a == e.params
        n == FormatSkip IN
    IF Len(a) >= n + 2 /\ a[n + 1] = s_whitespace /\ a[n + 2] = op.project THEN "whitespace"
    ELSE IF Len(a) >= n + 2 /\ a[n + 1] = s_style /\ a[n + 2] = op.project THEN "style"
    ELSE IF Len(a) >= n + 2 /\ a[n + 1] = s_analyzers /\ a[n + 2] = op.project THEN "analyzers"
    ELSE IF Len(a) >= n + 1 /\ a[n + 1] = op.project THEN "unified"
    ELSE "other"

FormatCalls == [i \in 1..Len(Processes) |-> FormatCall(Processes[i])]

FixWhitespace == getKey(op.parameters, s_fixWhitespace)
FixStyle == getKey(op.parameters, s_fixStyle)
FixAnalyzers == getKey(op.parameters, s_fixAnalyzers)
NoFixOptionSet == FixWhitespace = Undef /\ FixStyle = Undef /\ FixAnalyzers = Undef
OnSplitPath == op.name = "format" /\ sdkVersion.major >= 6 /\ ~NoFixOptionSet
AllExitedZero == \A i \in 1..Len(Processes) : Processes[i].status = 0

-----------------------------------------------------------------------------
(* C1 *)

Below6_0_100 ==
    sdkVersion.major < 6
      \/ (sdkVersion.major = 6 /\ sdkVersion.minor = 0 /\ sdkVersion.patch < 100)
AtLeast7_0_100 ==
    sdkVersion.major > 7
      \/ (sdkVersion.major = 7 /\ (sdkVersion.minor > 0 \/ sdkVersion.patch >= 100))

\* C1: listInstalledTemplates with a search term s and no language assembles
\* [new, s, --list] below 6.0.100, [new, --list, s] from 6.0.100 and below
\* 7.0.100, [new, list, s] from 7.0.100 on; s occurs exactly once in each.
C1_ListArguments ==
    (pc = "done" /\ op.name = "listInstalledTemplates"
       /\ op.search # <<>> /\ op.language = <<>>)
    => /\ Len(Processes) = 1
       /\ LET a == Processes[1].params IN
          /\ Below6_0_100 => a = <<s_new, op.search, s_dashdashlist>>
          /\ (~Below6_0_100 /\ ~AtLeast7_0_100) => a = <<s_new, s_dashdashlist, op.search>>
          /\ AtLeast7_0_100 => a = <<s_new, s_list, op.search>>
          /\ Cardinality({ i \in 1..Len(a) : a[i] = op.search }) = 1

C1_Witness ==
    /\ pc = "done" /\ op.name = "listInstalledTemplates"
    /\ op.search = s_web /\ op.language = <<>>
    /\ sdkVersion = [major |-> 6, minor |-> 0, patch |-> 100]
    /\ Processes[1].params = <<s_new, s_dashdashlist, s_web>>

-----------------------------------------------------------------------------
(* C2 *)

C2_Case ==
    /\ op.name = "format" /\ sdkVersion.major = 6
    /\ FixWhitespace = False /\ FixStyle = True /\ FixAnalyzers = Undef

\* C2 as stated: on SDK major 6 with {fixWhitespace: false, fixStyle: true}
\* format makes exactly one subcommand call, the style one.
C2_OnlyStyle == (pc = "done" /\ C2_Case) => FormatCalls = <<"style">>

\* C2, amended: on SDK major 6 with {fixWhitespace: false, fixStyle: true}
\* format makes no whitespace call; it makes the style call first and, when
\* that exits with status 0, the analyzers call after it (two calls); when the
\* style call fails it is the only one.
C2_StyleThenAnalyzers ==
    (pc = "done" /\ C2_Case)
    => /\ Len(Processes) >= 1
       /\ FormatCalls[1] = "style"
       /\ Processes[1].status = 0 => FormatCalls = <<"style", "analyzers">>
       /\ Processes[1].status # 0 => FormatCalls = <<"style">>

C2_Witness ==
    /\ pc = "done" /\ C2_Case
    /\ FormatCalls = <<"style", "analyzers">>
    /\ result = "returned"

-----------------------------------------------------------------------------
(* C3 *)

\* C3: when the SDK major version is below 6 or none of the three fix options
\* is set, format makes exactly one call, the unified one, format <project>
\* followed by the mapped options, and no subcommand call; when the major
\* version is at least 6 and one of the options is set it never makes the
\* unified call.
C3_UnifiedCall ==
    op.name = "format"
    => /\ (pc = "done" /\ (sdkVersion.major < 6 \/ NoFixOptionSet))
          => /\ FormatCalls = <<"unified">>
             /\ Processes[1].params =
                  SubSeq(Processes[1].params, 1, FormatSkip) \o <<op.project>>
                    \o optionTokens(op.parameters, formatKeyMap)
       /\ (sdkVersion.major >= 6 /\ ~NoFixOptionSet)
          => \A i \in 1..Len(FormatCalls) : FormatCalls[i] # "unified"

C3_Witness ==
    /\ pc = "done" /\ op.name = "format"
    /\ sdkVersion.major = 6 /\ NoFixOptionSet /\ op.parameters.def
    /\ FormatCalls = <<"unified">>

-----------------------------------------------------------------------------
(* C4 *)

C4_Expected ==
    (IF FixWhitespace # False THEN <<"whitespace">> ELSE <<>>)
      \o (IF FixStyle # False THEN <<"style">> ELSE <<>>)
      \o (IF FixAnalyzers # False THEN <<"analyzers">> ELSE <<>>)

\* C4: on the split path, when every subcommand call exits with status 0, the
\* calls made are those whose option is not false, in the order whitespace,
\* style, analyzers, so there are as many calls as options that are not false.
C4_SplitCalls ==
    (pc = "done" /\ OnSplitPath /\ AllExitedZero) => FormatCalls = C4_Expected

C4_Witness ==
    /\ pc = "done" /\ OnSplitPath /\ AllExitedZero
    /\ FixWhitespace = Undef /\ FixStyle = False /\ FixAnalyzers = Str(s_info)
    /\ FormatCalls = <<"whitespace", "analyzers">>

-----------------------------------------------------------------------------
(* C5 *)

\* C5: a blocking call (inherited or captured) raises when the process exits
\* with a status other than 0 and returns normally when it exits with 0; a
\* spawn returns a handle whatever the status.
C5_ExitStatus ==
    \A i \in 1..Len(Processes) :
        LET e == Processes[i] IN
        /\ (e.mode \in {"inherit", "pipe"} /\ e.status # 0) => result = "raised"
        /\ (e.mode \in {"inherit", "pipe"} /\ e.status = 0 /\ i = Len(Processes))
             => result \in (IF pc = "done" THEN {"returned"} ELSE {"none"})
        /\ e.mode = "spawn" => result = "handle"

C5_Witness ==
    /\ pc = "done" /\ result = "handle"
    /\ Len(Processes) = 1 /\ Processes[1].mode = "spawn" /\ Processes[1].status = 1

-----------------------------------------------------------------------------
(* C6 *)

\* r is t with the leftmost $NAME replaced by the value of NAME in the
\* environment, or by nothing when NAME is not set; r is t when t has no $NAME
IsSubstituted(t, r) ==
    LET starts == { i \in 1..(Len(t) - 1) : t[i] = "$" /\ t[i + 1] \in WordChars } IN
    IF starts = {} THEN r = t
    ELSE LET i == CHOOSE x \in starts : \A y \in starts : x <= y
             ends == { k \in (i + 1)..Len(t) : \A m \in (i + 1)..k : t[m] \in WordChars }
             j == CHOOSE x \in ends : \A y \in ends : y <= x
             name == SubSeq(t, i + 1, j)
             values == { b.value : b \in { c \in env : c.name = name } }
         IN \E v \in (IF values = {} THEN { <<>> } ELSE values) :
                r = SubSeq(t, 1, i - 1) \o v \o SubSeq(t, j + 1, Len(t))

\* C6: in each of the three modes every token handed to the process is the
\* assembled token with the first $NAME replaced by the value of NAME.
C6_SubstitutedInEveryMode ==
    \A i \in 1..Len(Processes) :
        LET e == Processes[i] IN
        /\ Len(e.args) = Len(e.params)
        /\ \A k \in 1..Len(e.params) : IsSubstituted(e.params[k], e.args[k])

-----------------------------------------------------------------------------
(* C7 *)

HasPrefix(a, prefix) == IsPrefixOf(prefix, a)

C7_Word == IF op.name = "run" THEN s_run ELSE s_test

\* C7 as stated: run and test put [watch, --project, project, run|test] first
\* with the watch flag and [run|test, project] without it.
C7_Prefix ==
    (pc = "done" /\ op.name \in {"run", "test"} /\ Len(Processes) = 1)
    => IF op.watch
       THEN HasPrefix(Processes[1].params,
                      <<s_watch, s_dashdashproject, op.project, C7_Word>>)
       ELSE HasPrefix(Processes[1].params, <<C7_Word, op.project>>)

\* C7, amended: with the watch flag run and test put
\* [watch, --project, project, run|test] first; without it test puts
\* [test, project] first and run puts [run, --project, project] first.
C7_PrefixAmended ==
    (pc = "done" /\ op.name \in {"run", "test"} /\ Len(Processes) = 1)
    => IF op.watch
       THEN HasPrefix(Processes[1].params,
                      <<s_watch, s_dashdashproject, op.project, C7_Word>>)
       ELSE IF op.name = "test"
       THEN HasPrefix(Processes[1].params, <<s_test, op.project>>)
       ELSE HasPrefix(Processes[1].params, <<s_run, s_dashdashproject, op.project>>)

C7_Witness ==
    /\ pc = "done" /\ op.name = "test" /\ op.watch /\ op.project = s_app
    /\ HasPrefix(Processes[1].params, <<s_watch, s_dashdashproject, s_app, s_test>>)

-----------------------------------------------------------------------------
(* C8 *)

C8_Positionals ==
    IF op.name = "build" THEN <<s_build, op.project>>
    ELSE IF op.name = "test"
    THEN (IF op.watch THEN <<s_watch, s_dashdashproject, op.project, s_test>>
          ELSE <<s_test, op.project>>)
    ELSE IF op.name = "publish" THEN <<s_publish, s_quote \o op.project \o s_quote>>
    ELSE <<s_tool, s_run, op.tool>> \o op.positionalParameters

C8_Options ==
    IF ~op.parameters.def THEN <<>>
    ELSE IF op.name = "build"
    THEN getSpawnParameterArray(swapKeysUsingMap(op.parameters.o, buildKeyMap))
    ELSE IF op.name = "test"
    THEN getSpawnParameterArray(swapKeysUsingMap(op.parameters.o, testKeyMap))
    ELSE IF op.name = "publish"
    THEN getSpawnParameterArray(swapKeysUsingMap(op.parameters.o, publishKeyMap))
    ELSE getSpawnParameterArray(op.parameters.o)

C8_Profile ==
    IF op.name = "publish" /\ op.publishProfile # <<>>
    THEN <<s_publishProfileEq \o op.publishProfile>>
    ELSE <<>>

C8_Extra == matchExtraParams(op.extraParameters)

\* C8: build, test, publish and runTool assemble the positional prefix, then
\* the flattened options, then the tokens of the extra parameters; publish
\* puts -p:PublishProfile=<name> after the options and before the extra tokens.
C8_AssemblyOrder ==
    (pc = "done" /\ op.name \in {"build", "test", "publish", "runTool"}
       /\ Len(Processes) = 1)
    => Processes[1].params = C8_Positionals \o C8_Options \o C8_Profile \o C8_Extra

C8_Witness ==
    /\ pc = "done" /\ op.name = "publish" /\ op.publishProfile = s_prod
    /\ Len(C8_Options) = 3 /\ Len(C8_Extra) = 2
    /\ Len(Processes) = 1 /\ Len(Processes[1].params) = 8

-----------------------------------------------------------------------------
(* C9 *)

\* the process at index i has a log line of its command before it, after the
\* process started before it
LoggedBefore(i) ==
    \E j \in 1..(i - 1) :
        /\ events[j].kind = "log"
        /\ events[j].args = events[i].args
        /\ \A k \in (j + 1)..(i - 1) : events[k].kind # "process"

\* C9 as stated: in each of the three modes a log line showing the command is
\* written before the process is started.
C9_LoggedInEveryMode ==
    \A i \in 1..Len(events) : events[i].kind = "process" => LoggedBefore(i)

\* C9, amended: in the blocking inherited mode and in the spawn mode a log
\* line showing the command is written before the process is started; the
\* blocking captured mode writes no log line.
C9_LoggedUnlessCaptured ==
    \A i \in 1..Len(events) :
        events[i].kind = "process"
        => IF events[i].mode = "pipe"
           THEN \A j \in 1..Len(events) : events[j].kind # "log"
           ELSE LoggedBefore(i)

C9_Witness ==
    /\ pc = "done" /\ op.name = "run" /\ Len(events) = 2
    /\ events[1].kind = "log" /\ events[2].kind = "process"
    /\ events[2].mode = "spawn" /\ events[1].args = events[2].args

-----------------------------------------------------------------------------
(* C10 *)

C10_FailFast ==
    OnSplitPath
    => /\ \A i \in 1..Len(Processes) :
              Processes[i].status # 0
              => (i = Len(Processes) /\ pc = "done" /\ result = "raised")
       /\ \A i, j \in 1..Len(FormatCalls) : i # j => FormatCalls[i] # FormatCalls[j]

C10_Kept ==
    /\ IsPrefixOf(events, events')
    /\ result = "raised" => (result' = "raised" /\ events' = events)

\* C10: on the split path a subcommand call that exits with a status other
\* than 0 makes format raise at once, no later subcommand call is started,
\* each subcommand call is started at most once, and the calls already made stay
\* made.
C10_FailFastNoRetry == [](C10_FailFast) /\ [][C10_Kept]_vars

C10_Witness ==
    /\ pc = "done" /\ OnSplitPath /\ result = "raised"
    /\ FixWhitespace = True /\ FixStyle = True /\ FixAnalyzers = Undef
    /\ FormatCalls = <<"whitespace">>

====
